---- MODULE Spec2Model ----
(***************************************************************************)
(* rue-emu: an RV32I interpreter (src/src/cpu.rs) over a flat 4096-byte    *)
(* memory (src/src/mem.rs).  The model follows Cpu::run one loop iteration *)
(* per step, and the Mem API one call per step.                            *)
(***************************************************************************)
EXTENDS Integers, Sequences, FiniteSets, TLC

VARIABLES
    buf,              \* the program image handed to Cpu::from_buf (bytes)
    overflow_checks,  \* the build: TRUE = overflow checks on (debug profile)
    registers,        \* Cpu.registers : [Xlen; 32]
    pc,               \* Cpu.pc
    mem,              \* Cpu.mem.raw : [u8; MEM_LEN], as its non-zero bytes
    status,           \* position of run: "running", "halted", "exited", "panicked"
    err,              \* why the loop was left: "none", "fetch", "execute"
    instr,            \* the instruction word of the last loop iteration
    iaddr,            \* the address it was fetched at
    prev,             \* registers before the last loop iteration
    steps,            \* number of instructions whose execute returned Ok
    dump,             \* what dump_registers printed (register values in order)
    call              \* the last call of the Mem API made by the harness

vars == <<buf, overflow_checks, registers, pc, mem, status, err, instr, iaddr,
          prev, steps, dump, call>>

(***************************************************************************)
(* Bounds of the model.                                                    *)
(***************************************************************************)
MaxLen == 3        \* words in the program image
MaxSteps == 6      \* loop iterations of run that are followed
MaxCalls == 2      \* Mem API calls that are followed
MaxRun == 1027     \* loop iterations followed on an image that fills the memory

(***************************************************************************)
(* Machine words.  Xlen and Ilen are u32.  A 32-bit pattern is kept as two *)
(* 16-bit halves, hi * 2^16 + lo, so that every bit of it is kept and no   *)
(* intermediate value leaves the range of TLC's 32-bit integers.           *)
(***************************************************************************)
XLEN == 32
Half == 2^16
W(hi, lo) == [hi |-> hi, lo |-> lo]
Xlen == [hi : 0..(Half - 1), lo : 0..(Half - 1)]

\* the pattern of an integer i, -2^31 <= i < 2^31 (`i as Xlen`)
AsXlen(i) == W((i \div Half) % Half, i % Half)
\* the integer of a pattern below 2^31
ToInt(w) == w.hi * Half + w.lo
\* the sign bit of `x as Ixlen`
Negative(w) == w.hi >= Half \div 2
\* `b as i8`
AsI8(b) == IF (b % 256) >= 128 THEN (b % 256) - 256 ELSE b % 256
\* `h as i16`
AsI16(h) == IF (h % Half) >= Half \div 2 THEN (h % Half) - Half ELSE h % Half

\* w % m for a modulus m <= 2^15
WMod(w, m) == ((w.hi % m) * (Half % m) + (w.lo % m)) % m

wrapping_add(a, b) ==
    LET s == a.lo + b.lo
    IN  W((a.hi + b.hi + (s \div Half)) % Half, s % Half)

wrapping_sub(a, b) ==
    LET d == a.lo - b.lo
    IN  W((a.hi - b.hi + (d \div Half)) % Half, d % Half)

\* a < b on u32, and on i32
ULess(a, b) == a.hi < b.hi \/ (a.hi = b.hi /\ a.lo < b.lo)
SLess(a, b) ==
    IF Negative(a) /= Negative(b) THEN Negative(a) ELSE ULess(a, b)

RECURSIVE BitAnd(_, _)
BitAnd(a, b) ==
    IF a = 0 \/ b = 0 THEN 0
    ELSE (a % 2) * (b % 2) + 2 * BitAnd(a \div 2, b \div 2)

RECURSIVE BitOr(_, _)
BitOr(a, b) ==
    IF a = 0 THEN b
    ELSE IF b = 0 THEN a
    ELSE (IF (a % 2) + (b % 2) > 0 THEN 1 ELSE 0) + 2 * BitOr(a \div 2, b \div 2)

RECURSIVE BitXor(_, _)
BitXor(a, b) ==
    IF a = 0 THEN b
    ELSE IF b = 0 THEN a
    ELSE ((a + b) % 2) + 2 * BitXor(a \div 2, b \div 2)

WAnd(a, b) == W(BitAnd(a.hi, b.hi), BitAnd(a.lo, b.lo))
WOr(a, b) == W(BitOr(a.hi, b.hi), BitOr(a.lo, b.lo))
WXor(a, b) == W(BitXor(a.hi, b.hi), BitXor(a.lo, b.lo))
WNot(a) == W((Half - 1) - a.hi, (Half - 1) - a.lo)

\* u32 >> n for 0 <= n < 32
Shr(x, n) ==
    IF n >= 16
    THEN W(0, x.hi \div (2^(n - 16)))
    ELSE W(x.hi \div (2^n), (x.lo \div (2^n)) + (x.hi % (2^n)) * (2^(16 - n)))

\* u32 << n for 0 <= n < 32 (bits shifted out are lost)
Shl(x, n) ==
    IF n >= 16
    THEN W((x.lo % (2^(32 - n))) * (2^(n - 16)), 0)
    ELSE W((x.hi % (2^(16 - n))) * (2^n) + (x.lo \div (2^(16 - n))),
           (x.lo % (2^(16 - n))) * (2^n))

\* i32 >> n for 0 <= n < 32: the sign bit fills from the left
Sar(x, n) == IF Negative(x) THEN WNot(Shr(WNot(x), n)) ELSE Shr(x, n)

(***************************************************************************)
(* mem.rs.  Addresses are usize; the harness and the engine hand in values *)
(* below 2^31.                                                             *)
(***************************************************************************)
MEM_LEN == 4096

Addrs == 0 .. (MEM_LEN - 1)

\* u32::to_le_bytes / u16::to_le_bytes: byte i (0..3) of the value
LeByte(value, i) ==
    CASE i = 0 -> value.lo % 256
      [] i = 1 -> value.lo \div 256
      [] i = 2 -> value.hi % 256
      [] i = 3 -> value.hi \div 256

\* u16::from_le_bytes and u32::from_le_bytes on a sequence of bytes
u16_from_le_bytes(bytes) == bytes[1] + 256 * bytes[2]
u32_from_le_bytes(bytes) ==
    W(bytes[3] + 256 * bytes[4], bytes[1] + 256 * bytes[2])

\* raw : [u8; MEM_LEN] is kept as its non-zero bytes: a function from the
\* addresses that hold a non-zero byte to that byte.  Rd and Wr are raw[a]
\* and raw[a] = v on it.
Rd(raw, a) == IF a \in DOMAIN raw THEN raw[a] ELSE 0

Wr(raw, a, v) ==
    IF v = 0
    THEN [x \in (DOMAIN raw) \ {a} |-> raw[x]]
    ELSE [x \in (DOMAIN raw) \cup {a} |-> IF x = a THEN v ELSE raw[x]]

\* Mem::from_buf: zero-filled raw, the buffer copied to its start (a buffer
\* longer than MEM_LEN panics in raw[..buf.len()]; the images here are shorter)
from_buf(b) ==
    [a \in {x \in 0..(Len(b) - 1) : x \in Addrs /\ b[x + 1] /= 0} |-> b[a + 1]]

load_byte(raw, addr) ==
    LET idx == addr % MEM_LEN IN Rd(raw, idx)

load_half(raw, addr) ==
    LET idx == addr % MEM_LEN
    IN  u16_from_le_bytes([i \in 1..2 |-> Rd(raw, (idx + (i - 1)) % MEM_LEN)])

load_word(raw, addr) ==
    LET idx == addr % MEM_LEN
    IN  u32_from_le_bytes([i \in 1..4 |-> Rd(raw, (idx + (i - 1)) % MEM_LEN)])

\* A store returns the new raw and whether the slice index panicked.
store_byte(raw, addr, value) ==
    LET idx == addr % MEM_LEN
    IN  [panic |-> FALSE, raw |-> Wr(raw, idx, value)]

\* raw[idx..idx + n] = the first n little-endian bytes of value
RECURSIVE CopyBytes(_, _, _, _)
CopyBytes(raw, idx, n, value) ==
    IF n = 0 THEN raw
    ELSE Wr(CopyBytes(raw, idx, n - 1, value), idx + (n - 1), LeByte(value, n - 1))

\* raw[idx..idx + n].copy_from_slice(bytes): the range check of the slice
\* index comes first, and panics when idx + n > MEM_LEN
copy_from_slice(raw, idx, n, value) ==
    IF idx + n > MEM_LEN
    THEN [panic |-> TRUE, raw |-> raw]
    ELSE [panic |-> FALSE, raw |-> CopyBytes(raw, idx, n, value)]

\* value is a u16
store_half(raw, addr, value) ==
    LET idx == addr % MEM_LEN
    IN  copy_from_slice(raw, idx, 2, W(0, value))

store_word(raw, addr, value) ==
    LET idx == addr % MEM_LEN
    IN  copy_from_slice(raw, idx, 4, value)

(***************************************************************************)
(* The encoding constants of shared::cpu (the RV32I base encoding).        *)
(***************************************************************************)
IALIGN == 4                        \* instruction alignment in bytes
MASK_OPCODE == W(0, 127)           \* 0x0000007f
MASK_RD == W(0, 3968)              \* 0x00000f80
MASK_FUNCT3 == W(0, 28672)         \* 0x00007000
MASK_RS1 == W(15, 32768)           \* 0x000f8000
MASK_RS2 == W(496, 0)              \* 0x01f00000
MASK_FUNCT7 == W(65024, 0)         \* 0xfe000000
MASK_I_IMM == W(65520, 0)          \* 0xfff00000
SHIFT_RD == 7
SHIFT_FUNCT3 == 12
SHIFT_RS1 == 15
SHIFT_RS2 == 20
SHIFT_FUNCT7 == 25
OPCODE_OP == 51               \* 0110011
OPCODE_OP_IMM == 19           \* 0010011
OPCODE_LOAD == 3              \* 0000011
OPCODE_STORE == 35            \* 0100011
OPCODE_BRANCH == 99           \* 1100011
OPCODE_JAL == 111             \* 1101111
OPCODE_JALR == 103            \* 1100111
OPCODE_LUI == 55              \* 0110111
OPCODE_AUIPC == 23            \* 0010111
OPCODE_FENCE == 15            \* 0001111
OPCODE_SYSTEM == 115          \* 1110011

DefinedOpcodes ==
    {OPCODE_OP, OPCODE_OP_IMM, OPCODE_LOAD, OPCODE_STORE, OPCODE_BRANCH,
     OPCODE_JAL, OPCODE_JALR, OPCODE_LUI, OPCODE_AUIPC, OPCODE_FENCE,
     OPCODE_SYSTEM}

(***************************************************************************)
(* cpu.rs: the fields execute takes from the instruction word.             *)
(***************************************************************************)
opcode_of(w) == ToInt(WAnd(w, MASK_OPCODE))
rd_of(w) == ToInt(Shr(WAnd(w, MASK_RD), SHIFT_RD))
rs1_of(w) == ToInt(Shr(WAnd(w, MASK_RS1), SHIFT_RS1))
rs2_of(w) == ToInt(Shr(WAnd(w, MASK_RS2), SHIFT_RS2))
funct3_of(w) == ToInt(Shr(WAnd(w, MASK_FUNCT3), SHIFT_FUNCT3))
funct7_of(w) == ToInt(Shr(WAnd(w, MASK_FUNCT7), SHIFT_FUNCT7))

\* ((instr & MASK_I_IMM) as Ixlen >> SHIFT_RS2) as Xlen
i_imm(w) == Sar(WAnd(w, MASK_I_IMM), SHIFT_RS2)
\* (instr & MASK_I_IMM) >> SHIFT_RS2
i_immu(w) == Shr(WAnd(w, MASK_I_IMM), SHIFT_RS2)

get_s_imm(w) ==
    WOr(Sar(WAnd(w, MASK_FUNCT7), SHIFT_RS2), Shr(WAnd(w, MASK_RD), SHIFT_RD))

\* (addr as usize) % MEM_LEN, the index every Mem access starts from
usize_index(addr) == WMod(addr, MEM_LEN)

(***************************************************************************)
(* cpu.rs: the operations.  Each returns how it ended ("ok", "err" for a   *)
(* returned Err, "panic" for a panic) with the registers and memory then.  *)
(***************************************************************************)
R(res, regs, raw) == [res |-> res, regs |-> regs, raw |-> raw]

\* add with the operation of sub
add_subtracts(regs, rd, rs1, rs2) ==
    [regs EXCEPT ![rd] = wrapping_sub(regs[rs1], regs[rs2])]

add(regs, rd, rs1, rs2) ==
    [regs EXCEPT ![rd] = wrapping_add(regs[rs1], regs[rs2])]

sub(regs, rd, rs1, rs2) ==
    [regs EXCEPT ![rd] = wrapping_sub(regs[rs1], regs[rs2])]

xor(regs, rd, rs1, rs2) == [regs EXCEPT ![rd] = WXor(regs[rs1], regs[rs2])]

or(regs, rd, rs1, rs2) == [regs EXCEPT ![rd] = WOr(regs[rs1], regs[rs2])]

and(regs, rd, rs1, rs2) == [regs EXCEPT ![rd] = WAnd(regs[rs1], regs[rs2])]

\* `a << b`, `a >> b` on u32, and on i32 with an i32 amount: with overflow
\* checks the operation panics when the amount is not in 0..31; without them
\* the amount is taken modulo 32.
shift_overflows(amount) == ~ULess(amount, W(0, XLEN))

sll(regs, raw, rd, rs1, rs2, oc) ==
    IF oc /\ shift_overflows(regs[rs2])
    THEN R("panic", regs, raw)
    ELSE R("ok", [regs EXCEPT ![rd] = Shl(regs[rs1], WMod(regs[rs2], XLEN))], raw)

srl(regs, raw, rd, rs1, rs2, oc) ==
    IF oc /\ shift_overflows(regs[rs2])
    THEN R("panic", regs, raw)
    ELSE R("ok", [regs EXCEPT ![rd] = Shr(regs[rs1], WMod(regs[rs2], XLEN))], raw)

sra(regs, raw, rd, rs1, rs2, oc) ==
    IF oc /\ shift_overflows(regs[rs2])
    THEN R("panic", regs, raw)
    ELSE R("ok", [regs EXCEPT ![rd] = Sar(regs[rs1], WMod(regs[rs2], XLEN))], raw)

\* slt and sltu are called by execute and defined nowhere in cpu.rs
slt(regs, rd, rs1, rs2) ==
    [regs EXCEPT ![rd] = IF SLess(regs[rs1], regs[rs2]) THEN W(0, 1) ELSE W(0, 0)]

sltu(regs, rd, rs1, rs2) ==
    [regs EXCEPT ![rd] = IF ULess(regs[rs1], regs[rs2]) THEN W(0, 1) ELSE W(0, 0)]

addi(regs, rd, rs1, imm) == [regs EXCEPT ![rd] = wrapping_add(regs[rs1], imm)]

xori(regs, rd, rs1, imm) == [regs EXCEPT ![rd] = WXor(regs[rs1], imm)]

ori(regs, rd, rs1, imm) == [regs EXCEPT ![rd] = WOr(regs[rs1], imm)]

andi(regs, rd, rs1, imm) == [regs EXCEPT ![rd] = WAnd(regs[rs1], imm)]

\* slli, srli, srai, slti and sltui are called by execute and defined nowhere
\* in cpu.rs
slli(regs, rd, rs1, imm) == [regs EXCEPT ![rd] = Shl(regs[rs1], WMod(imm, XLEN))]

srli(regs, rd, rs1, imm) == [regs EXCEPT ![rd] = Shr(regs[rs1], WMod(imm, XLEN))]

srai(regs, rd, rs1, imm) == [regs EXCEPT ![rd] = Sar(regs[rs1], WMod(imm, XLEN))]

slti(regs, rd, rs1, imm) ==
    [regs EXCEPT ![rd] = IF SLess(regs[rs1], imm) THEN W(0, 1) ELSE W(0, 0)]

sltui(regs, rd, rs1, immu) ==
    [regs EXCEPT ![rd] = IF ULess(regs[rs1], immu) THEN W(0, 1) ELSE W(0, 0)]

\* lb without the cast through i8: the byte is zero-extended
lb_zero_extends(regs, raw, rd, addr) ==
    LET value == load_byte(raw, usize_index(addr))
    IN  [regs EXCEPT ![rd] = AsXlen(value)]

\* value as i8 as Ixlen as Xlen
lb(regs, raw, rd, addr) ==
    LET value == load_byte(raw, usize_index(addr))
    IN  [regs EXCEPT ![rd] = AsXlen(AsI8(value))]

\* value as i16 as Ixlen as Xlen
lh(regs, raw, rd, addr) ==
    LET value == load_half(raw, usize_index(addr))
    IN  [regs EXCEPT ![rd] = AsXlen(AsI16(value))]

\* value as Ixlen as Xlen
lw(regs, raw, rd, addr) ==
    LET value == load_word(raw, usize_index(addr))
    IN  [regs EXCEPT ![rd] = value]

\* value as Xlen
lbu(regs, raw, rd, addr) ==
    LET value == load_byte(raw, usize_index(addr))
    IN  [regs EXCEPT ![rd] = AsXlen(value)]

lhu(regs, raw, rd, addr) ==
    LET value == load_half(raw, usize_index(addr))
    IN  [regs EXCEPT ![rd] = AsXlen(value)]

\* the result of a store, as a result of the operation
Stored(regs, s) == R(IF s.panic THEN "panic" ELSE "ok", regs, s.raw)

\* value as u8
sb(regs, raw, addr, value) ==
    Stored(regs, store_byte(raw, usize_index(addr), value.lo % 256))

\* value as u16
sh(regs, raw, addr, value) ==
    Stored(regs, store_half(raw, usize_index(addr), value.lo))

\* value as u32
sw(regs, raw, addr, value) ==
    Stored(regs, store_word(raw, usize_index(addr), value))

\* todo!()
beq(regs, raw, rs1, rs2) == R("panic", regs, raw)

bne(regs, raw, rs1, rs2) == R("panic", regs, raw)

\* blt, bge, bltu and begu are called by execute and defined nowhere in
\* cpu.rs; like beq and bne they are unimplemented
branch_unimplemented(regs, raw, rs1, rs2) == R("panic", regs, raw)

(***************************************************************************)
(* cpu.rs: execute.  A Rust match takes the first arm whose pattern        *)
(* matches, so the arms of the OP group are kept in their order.           *)
(***************************************************************************)
OpArms ==
    << <<0, 0, "add">>,  <<0, 32, "sub">>, <<4, 0, "xor">>, <<6, 0, "or">>,
       <<7, 0, "and">>,  <<1, 0, "sll">>,  <<5, 0, "srl">>, <<5, 32, "sra">>,
       <<2, 0, "slt">>,  <<2, 0, "sltu">> >>

\* the arm a (funct3, funct7) pair selects, "none" when it falls to `_`
op_arm(funct3, funct7) ==
    LET hits == {i \in 1..Len(OpArms) :
                    OpArms[i][1] = funct3 /\ OpArms[i][2] = funct7}
    IN  IF hits = {} THEN "none"
        ELSE OpArms[CHOOSE i \in hits : \A j \in hits : i <= j][3]

\* an unknown encoding taken as a no-op, like the arms that do nothing
decode_error_ignored(regs, raw) == R("ok", regs, raw)

\* return Err(Error::msg("Decode error: ..."))
decode_error(regs, raw) == R("err", regs, raw)

execute_op(w, regs, raw, oc) ==
    LET rd == rd_of(w)
        rs1 == rs1_of(w)
        rs2 == rs2_of(w)
        arm == op_arm(funct3_of(w), funct7_of(w))
    IN  CASE arm = "add" -> R("ok", add(regs, rd, rs1, rs2), raw)
          [] arm = "sub" -> R("ok", sub(regs, rd, rs1, rs2), raw)
          [] arm = "xor" -> R("ok", xor(regs, rd, rs1, rs2), raw)
          [] arm = "or" -> R("ok", or(regs, rd, rs1, rs2), raw)
          [] arm = "and" -> R("ok", and(regs, rd, rs1, rs2), raw)
          [] arm = "sll" -> sll(regs, raw, rd, rs1, rs2, oc)
          [] arm = "srl" -> srl(regs, raw, rd, rs1, rs2, oc)
          [] arm = "sra" -> sra(regs, raw, rd, rs1, rs2, oc)
          [] arm = "slt" -> R("ok", slt(regs, rd, rs1, rs2), raw)
          [] arm = "sltu" -> R("ok", sltu(regs, rd, rs1, rs2), raw)
          [] OTHER -> decode_error(regs, raw)

execute_op_imm(w, regs, raw) ==
    LET rd == rd_of(w)
        rs1 == rs1_of(w)
        funct3 == funct3_of(w)
        funct7 == funct7_of(w)
        imm == i_imm(w)
        immu == i_immu(w)
    IN  CASE funct3 = 0 -> R("ok", addi(regs, rd, rs1, imm), raw)
          [] funct3 = 4 -> R("ok", xori(regs, rd, rs1, imm), raw)
          [] funct3 = 6 -> R("ok", ori(regs, rd, rs1, imm), raw)
          [] funct3 = 7 -> R("ok", andi(regs, rd, rs1, imm), raw)
          [] funct3 = 1 -> IF funct7 /= 0 THEN decode_error(regs, raw)
                           ELSE R("ok", slli(regs, rd, rs1, imm), raw)
          \* the match on funct7 has no arm for other values; they are
          \* taken as a decode error
          [] funct3 = 5 -> IF funct7 = 0 THEN R("ok", srli(regs, rd, rs1, imm), raw)
                           ELSE IF funct7 = 32
                                THEN R("ok", srai(regs, rd, rs1, imm), raw)
                                ELSE decode_error(regs, raw)
          [] funct3 = 2 -> R("ok", slti(regs, rd, rs1, imm), raw)
          [] funct3 = 3 -> R("ok", sltui(regs, rd, rs1, immu), raw)
          [] OTHER -> decode_error(regs, raw)

execute_load(w, regs, raw) ==
    LET rd == rd_of(w)
        funct3 == funct3_of(w)
        addr == wrapping_add(regs[rs1_of(w)], i_imm(w))
    IN  CASE funct3 = 0 -> R("ok", lb(regs, raw, rd, addr), raw)
          [] funct3 = 1 -> R("ok", lh(regs, raw, rd, addr), raw)
          [] funct3 = 2 -> R("ok", lw(regs, raw, rd, addr), raw)
          [] funct3 = 4 -> R("ok", lbu(regs, raw, rd, addr), raw)
          [] funct3 = 5 -> R("ok", lhu(regs, raw, rd, addr), raw)
          [] OTHER -> decode_error(regs, raw)

execute_store(w, regs, raw) ==
    LET funct3 == funct3_of(w)
        addr == wrapping_add(regs[rs1_of(w)], get_s_imm(w))
        value == regs[rs2_of(w)]
    IN  CASE funct3 = 0 -> sb(regs, raw, addr, value)
          [] funct3 = 1 -> sh(regs, raw, addr, value)
          [] funct3 = 2 -> sw(regs, raw, addr, value)
          [] OTHER -> decode_error(regs, raw)

\* imm and immu are declared and never assigned: no branch target is computed
execute_branch(w, regs, raw) ==
    LET rs1 == rs1_of(w)
        rs2 == rs2_of(w)
        funct3 == funct3_of(w)
    IN  CASE funct3 = 0 -> beq(regs, raw, rs1, rs2)
          [] funct3 = 1 -> bne(regs, raw, rs1, rs2)
          [] funct3 \in {4, 5, 6, 7} -> branch_unimplemented(regs, raw, rs1, rs2)
          [] OTHER -> decode_error(regs, raw)

\* OPCODE_JAL => (), ... OPCODE_SYSTEM => ()
execute_nothing(regs, raw) == R("ok", regs, raw)

execute(w, regs, raw, oc) ==
    LET opcode == opcode_of(w)
    IN  CASE opcode = OPCODE_OP -> execute_op(w, regs, raw, oc)
          [] opcode = OPCODE_OP_IMM -> execute_op_imm(w, regs, raw)
          [] opcode = OPCODE_LOAD -> execute_load(w, regs, raw)
          [] opcode = OPCODE_STORE -> execute_store(w, regs, raw)
          [] opcode = OPCODE_BRANCH -> execute_branch(w, regs, raw)
          [] opcode \in {OPCODE_JAL, OPCODE_JALR, OPCODE_LUI, OPCODE_AUIPC,
                         OPCODE_FENCE, OPCODE_SYSTEM} -> execute_nothing(regs, raw)
          [] OTHER -> decode_error(regs, raw)

(***************************************************************************)
(* cpu.rs: fetch, inc_pc and the loop of run.                              *)
(***************************************************************************)
fetch(p, raw) ==
    IF WMod(p, IALIGN) /= 0
    THEN [ok |-> FALSE, instr |-> W(0, 0)]
    ELSE [ok |-> TRUE, instr |-> load_word(raw, usize_index(p))]

\* inc_pc without the reduction modulo the memory length
inc_pc_unwrapped(p) == wrapping_add(p, W(0, 4))

\* self.pc = self.pc.wrapping_add(4); self.pc %= self.mem.len() as Xlen
inc_pc(p) == AsXlen(WMod(wrapping_add(p, W(0, 4)), MEM_LEN))

\* match self.execute(instr) { Ok(_) => (), Err(_) => break }
after_execute(res) ==
    CASE res = "ok" -> "running"
      [] res = "err" -> "halted"
      [] OTHER -> "panicked"

NoCall == [op |-> "none", addr |-> 0, value |-> W(0, 0), ret |-> W(0, 0),
           after |-> <<>>, n |-> 0]

\* One iteration of the loop of run, followed for up to `bound` instructions.
Iteration(bound) ==
    /\ status = "running"
    /\ steps < bound
    /\ \E f \in {fetch(pc, mem)} :
           IF ~f.ok
           THEN /\ status' = "halted"
                /\ err' = "fetch"
                /\ UNCHANGED <<registers, pc, mem, instr, iaddr, prev, steps>>
           ELSE \E r \in {execute(f.instr, registers, mem, overflow_checks)} :
                    /\ instr' = f.instr
                    /\ iaddr' = pc
                    /\ prev' = registers
                    /\ pc' = inc_pc(pc)
                    /\ registers' = r.regs
                    /\ mem' = r.raw
                    /\ status' = after_execute(r.res)
                    /\ err' = IF r.res = "err" THEN "execute" ELSE "none"
                    /\ steps' = IF r.res = "ok" THEN steps + 1 ELSE steps
    /\ UNCHANGED <<buf, overflow_checks, dump, call>>

Step == Iteration(MaxSteps)

\* self.dump_registers(); Ok(())
dump_registers(regs) == [i \in 1..32 |-> regs[i - 1]]

Exit ==
    /\ status = "halted"
    /\ dump' = dump_registers(registers)
    /\ status' = "exited"
    /\ UNCHANGED <<buf, overflow_checks, registers, pc, mem, err, instr, iaddr,
                   prev, steps, call>>

(***************************************************************************)
(* Program images: up to MaxLen instruction words, little-endian in the    *)
(* buffer, drawn from a small set of instructions.  The Enc operators are  *)
(* the assembler: they place the fields as the RV32I formats do.           *)
(***************************************************************************)
EncR(funct7, rs2, rs1, funct3, rd, opcode) ==
    W(funct7 * 512 + rs2 * 16 + (rs1 \div 2),
      (rs1 % 2) * 32768 + funct3 * 4096 + rd * 128 + opcode)

\* imm: -2048..2047
EncI(imm, rs1, funct3, rd, opcode) ==
    W((imm % 4096) * 16 + (rs1 \div 2),
      (rs1 % 2) * 32768 + funct3 * 4096 + rd * 128 + opcode)

\* imm: -2048..2047
EncS(imm, rs2, rs1, funct3, opcode) ==
    W(((imm % 4096) \div 32) * 512 + rs2 * 16 + (rs1 \div 2),
      (rs1 % 2) * 32768 + funct3 * 4096 + (imm % 32) * 128 + opcode)

\* imm: an even byte offset, -4096..4094
EncB(imm, rs2, rs1, funct3, opcode) ==
    LET u == imm % 8192
    IN  W((u \div 4096) * 32768 + ((u \div 32) % 64) * 512 + rs2 * 16 + (rs1 \div 2),
          (rs1 % 2) * 32768 + funct3 * 4096 + ((u \div 2) % 16) * 256
              + ((u \div 2048) % 2) * 128 + opcode)

\* imm: an even byte offset, -2^20..2^20-2
EncJ(imm, rd, opcode) ==
    LET u == imm % (2^21)
    IN  W((u \div (2^20)) * 32768 + ((u \div 2) % 1024) * 32
              + ((u \div 2048) % 2) * 16 + (((u \div 4096) % 256) \div 16),
          ((u \div 4096) % 16) * 4096 + rd * 128 + opcode)

ADDI_x1_x0_5 == EncI(5, 0, 0, 1, OPCODE_OP_IMM)
ADDI_x2_x0_7 == EncI(7, 0, 0, 2, OPCODE_OP_IMM)
ADD_x3_x1_x2 == EncR(0, 2, 1, 0, 3, OPCODE_OP)
ADDI_x0_x0_5 == EncI(5, 0, 0, 0, OPCODE_OP_IMM)
ADDI_x1_x0_m1 == EncI(-1, 0, 0, 1, OPCODE_OP_IMM)
ADDI_x2_x0_1 == EncI(1, 0, 0, 2, OPCODE_OP_IMM)
SLL_x3_x2_x1 == EncR(0, 1, 2, 1, 3, OPCODE_OP)
SLT_x3_x1_x2 == EncR(0, 2, 1, 2, 3, OPCODE_OP)
SLTU_x3_x1_x2 == EncR(0, 2, 1, 3, 3, OPCODE_OP)
LB_x3_3_x0 == EncI(3, 0, 0, 3, OPCODE_LOAD)
LBU_x3_3_x0 == EncI(3, 0, 4, 3, OPCODE_LOAD)
SW_x2_0_x1 == EncS(0, 2, 1, 2, OPCODE_STORE)
BEQ_x0_x0_8 == EncB(8, 0, 0, 0, OPCODE_BRANCH)
JAL_x1_16 == EncJ(16, 1, OPCODE_JAL)
UndefinedWord == W(Half - 1, Half - 1)

InstrSet ==
    {ADDI_x1_x0_5, ADDI_x2_x0_7, ADD_x3_x1_x2, ADDI_x0_x0_5, ADDI_x1_x0_m1,
     ADDI_x2_x0_1, SLL_x3_x2_x1, SLT_x3_x1_x2, SLTU_x3_x1_x2, LB_x3_3_x0,
     LBU_x3_3_x0, SW_x2_0_x1, BEQ_x0_x0_8, JAL_x1_16, UndefinedWord}

\* the bytes of a sequence of words, each little-endian
ToBytes(words) ==
    [k \in 1..(4 * Len(words)) |-> LeByte(words[((k - 1) \div 4) + 1], (k - 1) % 4)]

Images == UNION {[1..n -> InstrSet] : n \in 0..MaxLen}

\* Cpu::from_buf / Cpu::from_mem
from_mem(m) ==
    [registers |-> [i \in 0..31 |-> W(0, 0)], pc |-> W(0, 0), mem |-> m]

Init ==
    /\ buf \in {ToBytes(ws) : ws \in Images}
    /\ overflow_checks \in BOOLEAN
    /\ LET cpu == from_mem(from_buf(buf))
       IN  /\ registers = cpu.registers
           /\ pc = cpu.pc
           /\ mem = cpu.mem
    /\ status = "running"
    /\ err = "none"
    /\ instr = W(0, 0)
    /\ iaddr = W(0, 0)
    /\ prev = registers
    /\ steps = 0
    /\ dump = <<>>
    /\ call = NoCall

Next == Step \/ Exit

Spec == Init /\ [][Next]_vars

(***************************************************************************)
(* The Mem API called directly: a memory made by from_buf, then up to      *)
(* MaxCalls stores and loads at addresses around both ends of raw.         *)
(***************************************************************************)
MemAddrs == {0, 1, MEM_LEN - 4, MEM_LEN - 3, MEM_LEN - 1, MEM_LEN, 2 * MEM_LEN - 2}
\* 0, 0x01020304, 0x800000ff, 0xffffffff
MemWords == {W(0, 0), W(258, 772), W(32768, 255), W(Half - 1, Half - 1)}

MemInit ==
    /\ buf \in {ToBytes(<<>>), ToBytes(<<ADDI_x1_x0_m1>>)}
    /\ overflow_checks = TRUE
    /\ registers = [i \in 0..31 |-> W(0, 0)]
    /\ pc = W(0, 0)
    /\ mem = from_buf(buf)
    /\ status = "running"
    /\ err = "none"
    /\ instr = W(0, 0)
    /\ iaddr = W(0, 0)
    /\ prev = registers
    /\ steps = 0
    /\ dump = <<>>
    /\ call = NoCall

\* a store: s is what the store returned
CallStore(name, s, addr, value) ==
    /\ mem' = s.raw
    /\ status' = IF s.panic THEN "panicked" ELSE "running"
    /\ call' = [op |-> name, addr |-> addr, value |-> value, ret |-> W(0, 0),
                after |-> <<>>, n |-> call.n + 1]

\* a load: ret is what it returned; after is the store_word call it follows
CallLoad(name, ret, addr) ==
    /\ UNCHANGED <<mem, status>>
    /\ call' = [op |-> name, addr |-> addr, value |-> W(0, 0), ret |-> ret,
                after |-> IF call.op = "store_word"
                          THEN <<call.addr, call.value>> ELSE <<>>,
                n |-> call.n + 1]

CallReady == status = "running" /\ call.n < MaxCalls

CpuUnchanged ==
    UNCHANGED <<buf, overflow_checks, registers, pc, err, instr, iaddr, prev,
                steps, dump>>

CallStoreWord ==
    /\ CallReady
    /\ \E addr \in MemAddrs, w \in MemWords :
          CallStore("store_word", store_word(mem, addr, w), addr, w)
    /\ CpuUnchanged

CallStoreHalf ==
    /\ CallReady
    /\ \E addr \in MemAddrs, w \in MemWords :
          CallStore("store_half", store_half(mem, addr, w.lo), addr, W(0, w.lo))
    /\ CpuUnchanged

CallStoreByte ==
    /\ CallReady
    /\ \E addr \in MemAddrs, w \in MemWords :
          CallStore("store_byte", store_byte(mem, addr, w.lo % 256), addr,
                    W(0, w.lo % 256))
    /\ CpuUnchanged

CallLoadWord ==
    /\ CallReady
    /\ \E addr \in MemAddrs : CallLoad("load_word", load_word(mem, addr), addr)
    /\ CpuUnchanged

CallLoadHalf ==
    /\ CallReady
    /\ \E addr \in MemAddrs :
          CallLoad("load_half", W(0, load_half(mem, addr)), addr)
    /\ CpuUnchanged

CallLoadByte ==
    /\ CallReady
    /\ \E addr \in MemAddrs :
          CallLoad("load_byte", W(0, load_byte(mem, addr)), addr)
    /\ CpuUnchanged

MemNext ==
    \/ CallStoreWord
    \/ CallStoreHalf
    \/ CallStoreByte
    \/ CallLoadWord
    \/ CallLoadHalf
    \/ CallLoadByte

MemSpec == MemInit /\ [][MemNext]_vars

(***************************************************************************)
(* Images that fill the memory: MEM_LEN / 4 copies of one instruction that *)
(* execute accepts, so that run goes round the memory; and, for the halt,  *)
(* the images of at most one word.                                         *)
(***************************************************************************)
ADDI_x1_x1_1 == EncI(1, 1, 0, 1, OPCODE_OP_IMM)
FENCE == W(0, OPCODE_FENCE)

FullImage(w) == [k \in 1..(MEM_LEN \div 4) |-> w]

LongImages ==
    {FullImage(ADDI_x1_x1_1), FullImage(FENCE), FullImage(JAL_x1_16)}
        \cup {<<>>} \cup {<<w>> : w \in InstrSet}

LongInit ==
    /\ buf \in {ToBytes(ws) : ws \in LongImages}
    /\ overflow_checks \in BOOLEAN
    /\ LET cpu == from_mem(from_buf(buf))
       IN  /\ registers = cpu.registers
           /\ pc = cpu.pc
           /\ mem = cpu.mem
    /\ status = "running"
    /\ err = "none"
    /\ instr = W(0, 0)
    /\ iaddr = W(0, 0)
    /\ prev = registers
    /\ steps = 0
    /\ dump = <<>>
    /\ call = NoCall

LongStep == Iteration(MaxRun)

LongNext == LongStep \/ Exit

LongSpec == LongInit /\ [][LongNext]_vars

(***************************************************************************)
(* Properties.  instr, iaddr and prev describe the last loop iteration;    *)
(* Ran says that there was one.                                            *)
(***************************************************************************)
Ran == steps > 0 \/ status /= "running"

Zero == W(0, 0)

\* the last iteration took an OP instruction with this (funct3, funct7)
RanOp(funct3, funct7) ==
    /\ Ran
    /\ opcode_of(instr) = OPCODE_OP
    /\ funct3_of(instr) = funct3
    /\ funct7_of(instr) = funct7

\* C1: register 0 reads as 0 in every reachable state, also after an
\* instruction whose rd is 0; and an ADDI to a register i in 1..31 is read
\* back from register i as the value written.
C1_ZeroRegister ==
    /\ registers[0] = Zero
    /\ (Ran /\ status = "running" /\ opcode_of(instr) = OPCODE_OP_IMM
            /\ funct3_of(instr) = 0 /\ rd_of(instr) /= 0)
        => registers[rd_of(instr)] = wrapping_add(prev[rs1_of(instr)], i_imm(instr))

\* C2: store_word(addr, w) does not fault and leaves the four bytes of w,
\* little-endian, at (addr + i) mod 4096 for i in 0..3, also when they wrap
\* past the end of memory; a load_word(addr) that follows it returns w.
C2_StoreLoadWord ==
    /\ call.op = "store_word" =>
          /\ status /= "panicked"
          /\ \A i \in 0..3 :
                Rd(mem, (call.addr + i) % MEM_LEN) = LeByte(call.value, i)
    /\ (call.op = "load_word" /\ call.after /= <<>> /\ call.after[1] = call.addr)
          => call.ret = call.after[2]

\* C3: after a BEQ with B-immediate +8 fetched at address A, the next fetch
\* is at A + 8 when the two registers are equal and at A + 4 when they differ.
C3_BeqTarget ==
    \A rs1 \in 0..31, rs2 \in 0..31 :
        (Ran /\ instr = EncB(8, rs2, rs1, 0, OPCODE_BRANCH))
            => /\ status = "running"
               /\ pc = wrapping_add(iaddr, IF prev[rs1] = prev[rs2]
                                           THEN W(0, 8) ELSE W(0, 4))

\* C4: after a JAL with J-immediate +16 and rd /= 0 fetched at address A,
\* register rd holds A + 4 and the program counter is A + 16.
C4_JalLink ==
    \A rd \in 1..31 :
        (Ran /\ instr = EncJ(16, rd, OPCODE_JAL))
            => /\ status = "running"
               /\ registers[rd] = wrapping_add(iaddr, W(0, 4))
               /\ pc = wrapping_add(iaddr, W(0, 16))

\* C5: a loop iteration that fetches a word whose opcode is outside the
\* defined set ends with the engine halted by an execute error, with no
\* register and no memory byte changed and no instruction counted; and once
\* the engine has halted nothing is fetched or changed any more.
C5_UndefinedOpcodeHalts ==
    [][/\ (status = "running" /\ iaddr' = pc /\ instr' = load_word(mem, ToInt(pc))
              /\ opcode_of(instr') \notin DefinedOpcodes)
          => /\ status' = "halted"
             /\ err' = "execute"
             /\ registers' = registers
             /\ mem' = mem
             /\ steps' = steps
       /\ status \in {"halted", "exited"}
          => /\ status' = "exited"
             /\ <<registers, mem, pc, instr, iaddr, steps>>'
                    = <<registers, mem, pc, instr, iaddr, steps>>]_vars

\* the engine halted on the all-ones word after x1 was written
C5_Witness ==
    /\ status = "halted"
    /\ instr = UndefinedWord
    /\ registers[1] /= Zero

\* the image of the end-to-end scenario
C6_Image == ToBytes(<<ADDI_x1_x0_5, ADDI_x2_x0_7, ADD_x3_x1_x2>>)

C6_Registers ==
    [i \in 0..31 |-> CASE i = 1 -> W(0, 5) [] i = 2 -> W(0, 7)
                       [] i = 3 -> W(0, 12) [] OTHER -> Zero]

\* C6: on the image ADDI x1,x0,5 ; ADDI x2,x0,7 ; ADD x3,x1,x2 the run never
\* panics, executes at most three instructions, and when it has halted it
\* has executed exactly three, stopped on the zero word at address 12, and
\* holds x1 = 5, x2 = 7, x3 = 12 and 0 in every other register; the dump
\* prints these registers.
C6_EndToEnd ==
    buf = C6_Image =>
        /\ status /= "panicked"
        /\ steps <= 3
        /\ status \in {"halted", "exited"} =>
              /\ steps = 3
              /\ err = "execute"
              /\ iaddr = W(0, 12)
              /\ instr = Zero
              /\ registers = C6_Registers
        /\ status = "exited" => dump = [i \in 1..32 |-> C6_Registers[i - 1]]

C6_Witness == buf = C6_Image /\ status = "exited"

\* C7: SLL writes rs1's value shifted left by (rs2's value mod 32) to rd and
\* does not fault, whatever rs2's value is.
C7_ShiftMasking ==
    RanOp(1, 0) =>
        /\ status /= "panicked"
        /\ rd_of(instr) /= 0 =>
              registers[rd_of(instr)]
                  = Shl(prev[rs1_of(instr)], prev[rs2_of(instr)].lo % 32)

\* C8: an OP instruction with funct3 = 2, funct7 = 0 (SLT) writes the signed
\* less-than of rs1 and rs2 to rd, and one with funct3 = 3, funct7 = 0 (SLTU)
\* writes the unsigned less-than; neither is a decode error.
C8_SltSltuDistinct ==
    /\ RanOp(2, 0) =>
          /\ err /= "execute"
          /\ registers[rd_of(instr)]
                = IF SLess(prev[rs1_of(instr)], prev[rs2_of(instr)])
                  THEN W(0, 1) ELSE Zero
    /\ RanOp(3, 0) =>
          /\ err /= "execute"
          /\ registers[rd_of(instr)]
                = IF ULess(prev[rs1_of(instr)], prev[rs2_of(instr)])
                  THEN W(0, 1) ELSE Zero

\* the byte at the effective address of a load: rs1 + sign-extended
\* I-immediate, modulo the memory capacity
C9_Byte(w, regs, raw) ==
    Rd(raw, WMod(wrapping_add(regs[rs1_of(w)], i_imm(w)), MEM_LEN))

\* C9: a loop iteration that fetches LB writes to rd the byte at the
\* effective address sign-extended to 32 bits (b >= 0x80 gives 0xFFFFFF00 + b)
\* and one that fetches LBU writes it zero-extended; the iteration goes on
\* running and changes no other register and no memory byte.
C9_LoadByteExtension ==
    [][(status = "running" /\ iaddr' = pc /\ instr' = load_word(mem, ToInt(pc))
           /\ opcode_of(instr') = OPCODE_LOAD /\ funct3_of(instr') \in {0, 4})
          => LET b == C9_Byte(instr', registers, mem)
                 v == IF funct3_of(instr') = 0 /\ b >= 128
                      THEN W(65535, 65280 + b) ELSE W(0, b)
             IN  /\ status' = "running"
                 /\ registers' = [registers EXCEPT ![rd_of(instr')] = v]
                 /\ mem' = mem]_vars

\* LB has loaded the byte 0xFF, the top byte of ADDI x1,x0,-1 at address 0
C9_Witness ==
    /\ Ran
    /\ instr = LB_x3_3_x0
    /\ Rd(mem, 3) = 255
    /\ registers[3] = W(65535, 65535)

\* C10: the program counter is a multiple of 4 below the memory capacity;
\* it is 0 before the first iteration and afterwards the address of the last
\* fetch plus 4, modulo the capacity; and the loop is never left through the
\* alignment check of fetch, only through an error of execute.
C10_PcAlignedInMemory ==
    /\ pc.hi = 0
    /\ pc.lo % 4 = 0
    /\ pc.lo < 4096
    /\ pc = IF Ran THEN W(0, (ToInt(iaddr) + 4) % 4096) ELSE Zero
    /\ err /= "fetch"
    /\ status \in {"halted", "exited"} => err = "execute"

\* the program counter has gone round the memory and is back at its start
C10_Witness ==
    /\ steps >= MEM_LEN \div 4
    /\ status = "running"
    /\ pc = Zero

====
